---- MODULE Spec2Model ----
(***************************************************************************)
(* Confidence Coach backend: pause detection, context extraction, metrics  *)
(* and the /analyze session of src/app.py (hosted transcription, variant   *)
(* "api") and src/backend/app.py (local transcription with transcoding,    *)
(* variant "local").                                                       *)
(*                                                                         *)
(* Timestamps are fixed-point milliseconds (1 s = 1000).  round(x, 2) is   *)
(* rounding to a multiple of 10, round(x, 1) to a multiple of 100 and      *)
(* round(x) to a multiple of 1000, ties to even as in Python.  Text is a   *)
(* sequence of one-character strings.  Python's 0-based index i is the     *)
(* 1-based index i + 1 here.                                               *)
(***************************************************************************)
EXTENDS Integers, Sequences, FiniteSets, TLC

VARIABLES variant, pc, words, text, threshold, pauses, k, ctx, metrics,
          files, response, failure, calls

vars == <<variant, pc, words, text, threshold, pauses, k, ctx, metrics,
          files, response, failure, calls>>

\* ------------------------------------------------------------------ bounds

\* Longest TimedUnit sequence handed to the pure functions.
MaxUnits == 3

\* Longest TimedUnit sequence the Transcript Source returns in a session.
MaxWords == 3

\* ------------------------------------------------------- program constants

\* threshold=3.0 in analyze, in milliseconds.
PauseThreshold == 3000

\* seconds=15, the lookback window, in milliseconds.
LookbackWindow == 15000

\* len(context.strip()) < 10
MinContextChars == 10

\* 100 - (total_pause_time * 5) - (pause_count * 10)
FluencyBase == 100

PauseTimePenalty == 5

PauseCountPenalty == 10

\* ------------------------------------------------------------ input sets

Variants == {"api", "local"}

\* Timestamps of the pure-function inputs: sub-centisecond values, a gap of
\* a little over 3 s (twice in a row), a gap of exactly 15 s (3064 -> 18064)
\* and gaps over 15 s.
TimeStamps == {0, 6, 3064, 6128, 18064}

\* Timestamps the Transcript Source returns in a session: a 5 s gap, a gap
\* of exactly 15 s and gaps over 15 s.
SessionTimes == {0, 5000, 20000}

\* Thresholds handed to detect_pauses: below zero (an overlap of 6 ms still
\* counts), zero, the session's 3 s, and one equal to a gap of the inputs.
Thresholds == {-6, 0, PauseThreshold, 3064}

Windows == {LookbackWindow, 3064}

Chars(s) == CASE s = "a" -> <<"a">>
              [] s = "b" -> <<"b">>
              [] s = "c" -> <<"c">>
              [] s = "d" -> <<"d">>
              [] s = "e" -> <<"e">>
              [] s = " " -> <<" ">>
              [] s = " hi" -> <<" ", "h", "i">>
              [] s = " so my point" -> <<" ", "s", "o", " ", "m", "y", " ", "p", "o", "i", "n", "t">>
              [] s = "a b c d e" -> <<"a", " ", "b", " ", "c", " ", "d", " ", "e">>
              [] OTHER -> <<>>

\* The text of the unit at position j of a pure-function input: one letter
\* per position, so a context names the units it was built from.
Label(j) == Chars(CASE j = 1 -> "a" [] j = 2 -> "b" [] j = 3 -> "c"
                    [] j = 4 -> "d" [] OTHER -> "e")

\* Word texts of a session: empty, short (3 characters), long (12 characters).
SessionTexts == {Chars(""), Chars(" hi"), Chars(" so my point")}

\* Full transcripts: empty, whitespace only, five words.
Transcripts == {Chars(""), Chars(" "), Chars("a b c d e")}

\* Messages of the errors the external calls raise.
ErrMsgs == {"e1", "e2"}

\* Strings the completion call returns.
Completions == {"What's a specific example of that?"}

\* ---------------------------------------------------------------- helpers

Whitespace == {" "}

Max(a, b) == IF a >= b THEN a ELSE b

\* Python round(): x to the nearest multiple of q, ties to the even multiple.
RoundHalfEven(x, q) ==
    LET lo == (x \div q) * q
        r == x - lo
    IN IF 2 * r < q THEN lo
       ELSE IF 2 * r > q THEN lo + q
       ELSE IF (lo \div q) % 2 = 0 THEN lo ELSE lo + q

RECURSIVE StripLeft(_)
StripLeft(s) == IF s # <<>> /\ Head(s) \in Whitespace THEN StripLeft(Tail(s)) ELSE s

RECURSIVE StripRight(_)
StripRight(s) ==
    IF s # <<>> /\ s[Len(s)] \in Whitespace
    THEN StripRight(SubSeq(s, 1, Len(s) - 1)) ELSE s

\* str.strip()
Strip(s) == StripRight(StripLeft(s))

\* " ".join(parts)
RECURSIVE Join(_)
Join(parts) ==
    IF parts = <<>> THEN <<>>
    ELSE IF Len(parts) = 1 THEN parts[1]
    ELSE parts[1] \o <<" ">> \o Join(Tail(parts))

\* len(s.split()): the number of maximal runs of non-whitespace characters.
RECURSIVE SplitCount(_)
SplitCount(s) ==
    IF s = <<>> THEN 0
    ELSE IF Head(s) \in Whitespace THEN SplitCount(Tail(s))
    ELSE IF Len(s) = 1 \/ s[2] \in Whitespace THEN 1 + SplitCount(Tail(s))
    ELSE SplitCount(Tail(s))

RECURSIVE SumDurations(_)
SumDurations(ps) == IF ps = <<>> THEN 0 ELSE Head(ps).duration + SumDurations(Tail(ps))

\* The ai_prompt of a pause nothing was attached to yet.
NotAttached == "(not attached)"

\* -------------------------------------------------------- src/app.py core

\* if gap >= threshold
IsPause_strict(gap, th) == gap > th

IsPause(gap, th) == gap >= th

\* if w["start"] >= cutoff
InWindow_byEnd(w, cutoff) == w.end >= cutoff

InWindow(w, cutoff) == w.start >= cutoff

get_context_before(ws, index, seconds) ==
    IF index = 1 THEN <<>>
    ELSE LET pause_time == ws[index].start
             cutoff == pause_time - seconds
             before == SubSeq(ws, 1, index - 1)
             kept == SelectSeq(before, LAMBDA w : InWindow(w, cutoff))
         IN Join([j \in 1..Len(kept) |-> kept[j].word])

RECURSIVE detect_pauses_loop(_, _, _, _)
detect_pauses_loop(ws, th, i, acc) ==
    IF i > Len(ws) THEN acc
    ELSE LET gap == ws[i].start - ws[i - 1].end
         IN detect_pauses_loop(ws, th, i + 1,
              IF IsPause(gap, th)
              THEN Append(acc, [pause_start |-> RoundHalfEven(ws[i - 1].end, 10),
                                pause_end |-> RoundHalfEven(ws[i].start, 10),
                                duration |-> RoundHalfEven(gap, 10),
                                word_before |-> ws[i - 1].word,
                                word_after |-> ws[i].word,
                                context_before |->
                                    get_context_before(ws, i, LookbackWindow),
                                ai_prompt |-> NotAttached])
              ELSE acc)

detect_pauses(ws, th) == detect_pauses_loop(ws, th, 2, <<>>)

\* ------------------------------------------------ src/backend/app.py core

\* if seg["start"] >= cutoff and seg["end"] <= pause_time
get_context_before_local(segments, pause_time, seconds) ==
    LET cutoff == pause_time - seconds
        kept == SelectSeq(segments,
                          LAMBDA seg : seg.start >= cutoff /\ seg.end <= pause_time)
    IN Join([j \in 1..Len(kept) |-> Strip(kept[j].word)])

RECURSIVE detect_pauses_local_loop(_, _, _, _)
detect_pauses_local_loop(segments, th, i, acc) ==
    IF i > Len(segments) THEN acc
    ELSE LET gap == segments[i].start - segments[i - 1].end
         IN detect_pauses_local_loop(segments, th, i + 1,
              IF IsPause(gap, th)
              THEN Append(acc, [pause_start |-> segments[i - 1].end,
                                pause_end |-> segments[i].start,
                                duration |-> RoundHalfEven(gap, 10),
                                context_before |->
                                    get_context_before_local(
                                        segments, segments[i].start, LookbackWindow),
                                ai_prompt |-> NotAttached])
              ELSE acc)

detect_pauses_local(segments, th) ==
    IF segments = <<>> \/ Len(segments) < 2 THEN <<>>
    ELSE detect_pauses_local_loop(segments, th, 2, <<>>)

DetectPauses(v, ws, th) ==
    IF v = "api" THEN detect_pauses(ws, th) ELSE detect_pauses_local(ws, th)

\* ----------------------------------------------------------------- metrics

\* fluency, in thousandths: max(0, 100 - total*5 - count*10) or 0 without words.
Fluency_noWordCheck(word_count, total_pause_time, pause_count) ==
    Max(0, FluencyBase * 1000 - total_pause_time * PauseTimePenalty
           - pause_count * PauseCountPenalty * 1000)

Fluency_roundedTotal(word_count, total_pause_time, pause_count) ==
    IF word_count > 0
    THEN Max(0, FluencyBase * 1000
                - RoundHalfEven(total_pause_time, 100) * PauseTimePenalty
                - pause_count * PauseCountPenalty * 1000)
    ELSE 0

Fluency(word_count, total_pause_time, pause_count) ==
    IF word_count > 0
    THEN Max(0, FluencyBase * 1000 - total_pause_time * PauseTimePenalty
                - pause_count * PauseCountPenalty * 1000)
    ELSE 0

\* total_pause_seconds is in milliseconds (a multiple of 100), fluency_score
\* an integer.
calculate_metrics(transcript, ps, prompts_generated) ==
    LET word_count == SplitCount(transcript)
        pause_count == Len(ps)
        total_pause_time == SumDurations(ps)
        fluency == Fluency(word_count, total_pause_time, pause_count)
    IN [word_count |-> word_count,
        pause_count |-> pause_count,
        total_pause_seconds |-> RoundHalfEven(total_pause_time, 100),
        prompts_generated |-> prompts_generated,
        fluency_score |-> RoundHalfEven(fluency, 1000) \div 1000]

NoMetrics == [word_count |-> -1, pause_count |-> -1, total_pause_seconds |-> -1,
              prompts_generated |-> -1, fluency_score |-> -1]

\* ------------------------------------------------------- /analyze session

NoResponse == [status |-> 0, error |-> "", results |-> FALSE]

\* return jsonify({"success": True, ...})
SuccessResponse == [status |-> 200, error |-> "", results |-> TRUE]

\* return jsonify({"error": str(e)}), 500
ErrorResponse_status200(msg) == [status |-> 200, error |-> msg, results |-> FALSE]

ErrorResponse_partial(msg) == [status |-> 500, error |-> msg, results |-> TRUE]

ErrorResponse(msg) == [status |-> 500, error |-> msg, results |-> FALSE]

\* return jsonify({"error": "No audio file provided"}), 400
MissingInputResponse(v) ==
    [status |-> 400,
     error |-> IF v = "api" THEN "No audio file provided" ELSE "No video file provided",
     results |-> FALSE]

\* return jsonify({"error": "Failed to process audio. ..."}), 500
TranscodeFailedMsg == "Failed to process audio. Make sure ffmpeg is installed."

\* An exception that leaves analyze: the framework answers 500 itself.
UnhandledResponse == [status |-> 500, error |-> "(unhandled exception)", results |-> FALSE]

\* The fixed fallback prompt of the variant.
Fallback(v) ==
    IF v = "api" THEN "What's the main point you want to make?"
    ELSE "What's the main point you want to share?"

\* generate_prompt: not (not context or len(context.strip()) < 10)
NeedsCompletion_anyContext(context) == context # <<>>

NeedsCompletion(context) ==
    ~(context = <<>> \/ Len(Strip(context)) < MinContextChars)

\* finally: os.remove of the temp files that exist.
Finally(v, fs) == IF v = "api" THEN fs \ {"webm"} ELSE fs \ {"webm", "wav"}

\* The prompt loop from pause j up to the next completion call (blocked) or
\* its end: a pause without context, or with too little, gets the fallback.
RECURSIVE PromptLoop(_, _, _)
PromptLoop(v, ps, j) ==
    IF j > Len(ps) THEN [pauses |-> ps, k |-> j, blocked |-> FALSE]
    ELSE IF ps[j].context_before # <<>> /\ NeedsCompletion(ps[j].context_before)
    THEN [pauses |-> ps, k |-> j, blocked |-> TRUE]
    ELSE PromptLoop(v, [ps EXCEPT ![j].ai_prompt = Fallback(v)], j + 1)

\* Statistics of the success response.
SessionMetrics(v, t, ws, ps) ==
    IF v = "api" THEN calculate_metrics(t, ps, Len(ps))
    ELSE [duration |-> IF ws # <<>> THEN ws[Len(ws)].end ELSE 0,
          pause_count |-> Len(ps)]

\* The code of analyze from pause j of the prompt loop on, up to the next
\* completion call or the response and the finally clause.
Continue(ps, j, t, ws) ==
    LET r == PromptLoop(variant, ps, j)
    IN /\ pauses' = r.pauses
       /\ k' = r.k
       /\ IF r.blocked
          THEN /\ pc' = "llm"
               /\ UNCHANGED <<metrics, response, files>>
          ELSE /\ pc' = "done"
               /\ metrics' = SessionMetrics(variant, t, ws, r.pauses)
               /\ response' = SuccessResponse
               /\ files' = Finally(variant, files)

NoFailure == [step |-> "none", msg |-> ""]

NoCalls == [transcode |-> 0, transcribe |-> 0, llm |-> <<>>]

NoContext == [index |-> 0, window |-> 0, value |-> <<>>]

\* A TimedUnit: start <= end.
Units(times, texts) ==
    {u \in [word : texts, start : times, end : times] : u.start <= u.end}

SessionInputs ==
    UNION {[1..n -> Units(SessionTimes, SessionTexts)] : n \in 0..MaxWords}

Init ==
    /\ variant \in Variants
    /\ pc = "start"
    /\ words = <<>>
    /\ text = <<>>
    /\ threshold = PauseThreshold
    /\ pauses = <<>>
    /\ k = 1
    /\ ctx = NoContext
    /\ metrics = NoMetrics
    /\ files = {}
    /\ response = NoResponse
    /\ failure = NoFailure
    /\ calls = NoCalls

\* if "audio" not in request.files: 400
NoUploadField ==
    /\ pc = "start"
    /\ response' = MissingInputResponse(variant)
    /\ pc' = "done"
    /\ UNCHANGED <<variant, words, text, threshold, pauses, k, ctx, metrics,
                   files, failure, calls>>

\* The temp file is created and audio_file.save raises: the exception leaves
\* analyze before its try statement is entered.
SaveUploadRaises ==
    /\ pc = "start"
    /\ \E msg \in ErrMsgs : failure' = [step |-> "save", msg |-> msg]
    /\ files' = files \cup {"webm"}
    /\ response' = UnhandledResponse
    /\ pc' = "done"
    /\ UNCHANGED <<variant, words, text, threshold, pauses, k, ctx, metrics, calls>>

SaveUpload ==
    /\ pc = "start"
    /\ files' = files \cup {"webm"}
    /\ pc' = IF variant = "api" THEN "transcribe" ELSE "transcode"
    /\ UNCHANGED <<variant, words, text, threshold, pauses, k, ctx, metrics,
                   response, failure, calls>>

\* subprocess.run(ffmpeg ...) returns 0
TranscodeOk ==
    /\ pc = "transcode"
    /\ calls' = [calls EXCEPT !.transcode = @ + 1]
    /\ files' = files \cup {"wav"}
    /\ pc' = "transcribe"
    /\ UNCHANGED <<variant, words, text, threshold, pauses, k, ctx, metrics,
                   response, failure>>

\* result.returncode != 0: stderr is printed, the fixed message returned; the
\* utility may have left a partial .wav file.
TranscodeNonZero ==
    /\ pc = "transcode"
    /\ calls' = [calls EXCEPT !.transcode = @ + 1]
    /\ \E msg \in ErrMsgs : failure' = [step |-> "transcode_status", msg |-> msg]
    /\ response' = ErrorResponse(TranscodeFailedMsg)
    /\ \E wrote \in BOOLEAN :
          files' = Finally(variant, IF wrote THEN files \cup {"wav"} ELSE files)
    /\ pc' = "done"
    /\ UNCHANGED <<variant, words, text, threshold, pauses, k, ctx, metrics>>

\* subprocess.run raises (the utility is not installed)
TranscodeRaises ==
    /\ pc = "transcode"
    /\ calls' = [calls EXCEPT !.transcode = @ + 1]
    /\ \E msg \in ErrMsgs :
          /\ failure' = [step |-> "transcode", msg |-> msg]
          /\ response' = ErrorResponse(msg)
    /\ files' = Finally(variant, files)
    /\ pc' = "done"
    /\ UNCHANGED <<variant, words, text, threshold, pauses, k, ctx, metrics>>

\* The Transcript Source returns: detect_pauses, then the prompt loop.
TranscribeOk ==
    /\ pc = "transcribe"
    /\ calls' = [calls EXCEPT !.transcribe = @ + 1]
    /\ \E ws \in SessionInputs, t \in Transcripts :
          /\ words' = ws
          /\ text' = t
          /\ Continue(DetectPauses(variant, ws, PauseThreshold), 1, t, ws)
    /\ UNCHANGED <<variant, threshold, ctx, failure>>

TranscribeRaises ==
    /\ pc = "transcribe"
    /\ calls' = [calls EXCEPT !.transcribe = @ + 1]
    /\ \E msg \in ErrMsgs :
          /\ failure' = [step |-> "transcribe", msg |-> msg]
          /\ response' = ErrorResponse(msg)
    /\ files' = Finally(variant, files)
    /\ pc' = "done"
    /\ UNCHANGED <<variant, words, text, threshold, pauses, k, ctx, metrics>>

\* The completion call for pause k returns; the loop goes on.
CompletionOk ==
    /\ pc = "llm"
    /\ calls' = [calls EXCEPT !.llm = Append(@, k)]
    /\ \E c \in Completions :
          Continue([pauses EXCEPT ![k].ai_prompt = c], k + 1, text, words)
    /\ UNCHANGED <<variant, words, text, threshold, ctx, failure>>

CompletionRaises ==
    /\ pc = "llm"
    /\ calls' = [calls EXCEPT !.llm = Append(@, k)]
    /\ \E msg \in ErrMsgs :
          /\ failure' = [step |-> "llm", msg |-> msg]
          /\ response' = ErrorResponse(msg)
    /\ files' = Finally(variant, files)
    /\ pc' = "done"
    /\ UNCHANGED <<variant, words, text, threshold, pauses, k, ctx, metrics>>

Next ==
    \/ NoUploadField
    \/ SaveUploadRaises
    \/ SaveUpload
    \/ TranscodeOk
    \/ TranscodeNonZero
    \/ TranscodeRaises
    \/ TranscribeOk
    \/ TranscribeRaises
    \/ CompletionOk
    \/ CompletionRaises

Spec == Init /\ [][Next]_vars

\* --------------------------------------------- the pure functions, applied

\* Unit j carries Label(j).
CoreInputs ==
    {[j \in 1..Len(us) |-> [us[j] EXCEPT !.word = Label(j)]] :
        us \in UNION {[1..n -> Units(TimeStamps, {<<>>})] : n \in 0..MaxUnits}}

CoreInit ==
    /\ variant \in Variants
    /\ pc = "input"
    /\ words \in CoreInputs
    /\ text = <<>>
    /\ threshold = PauseThreshold
    /\ pauses = <<>>
    /\ k = 1
    /\ ctx = NoContext
    /\ metrics = NoMetrics
    /\ files = {}
    /\ response = NoResponse
    /\ failure = NoFailure
    /\ calls = NoCalls

CoreDetect ==
    /\ pc = "input"
    /\ \E th \in Thresholds :
          /\ threshold' = th
          /\ pauses' = DetectPauses(variant, words, th)
    /\ pc' = "detected"
    /\ UNCHANGED <<variant, words, text, k, ctx, metrics, files, response,
                   failure, calls>>

CoreContext ==
    /\ pc = "input"
    /\ \E i \in 1..Len(words), w \in Windows :
          ctx' = [index |-> i, window |-> w,
                  value |-> IF variant = "api"
                            THEN get_context_before(words, i, w)
                            ELSE get_context_before_local(words, words[i].start, w)]
    /\ pc' = "context"
    /\ UNCHANGED <<variant, words, text, threshold, pauses, k, metrics, files,
                   response, failure, calls>>

CoreMetrics ==
    /\ pc = "detected"
    /\ variant = "api"
    /\ \E t \in Transcripts :
          /\ text' = t
          /\ metrics' = calculate_metrics(t, pauses, Len(pauses))
    /\ pc' = "measured"
    /\ UNCHANGED <<variant, words, threshold, pauses, k, ctx, files, response,
                   failure, calls>>

CoreNext == CoreDetect \/ CoreContext \/ CoreMetrics

CoreSpec == CoreInit /\ [][CoreNext]_vars

\* ------------------------------------------------------------------ claims

Gap(ws, i) == ws[i].start - ws[i - 1].end

\* The indices i (of the unit after the gap) with a gap of at least th, in
\* increasing order.
PauseIndices(ws, th) ==
    SelectSeq([i \in 1..Len(ws) |-> i], LAMBDA i : i >= 2 /\ Gap(ws, i) >= th)

SortedByStart(ws) == \A i \in 2..Len(ws) : ws[i - 1].start <= ws[i].start

\* The pause indices n of the pause list that satisfy Test, in increasing order.
PausesWhere(Test(_)) == SelectSeq([n \in 1..Len(pauses) |-> n], Test)

Called(n) == \E c \in 1..Len(calls.llm) : calls.llm[c] = n

C2_ContextIsHalfOpenWindow ==
    (/\ pc = "context"
     /\ SortedByStart(words)
     /\ IF ctx.index = 1 THEN variant = "api"
        ELSE Gap(words, ctx.index) >= PauseThreshold)
    => LET at == words[ctx.index].start
           inside == SelectSeq(words, LAMBDA w : at - ctx.window <= w.start /\ w.start < at)
       IN ctx.value = IF ctx.index = 1 THEN <<>>
                      ELSE Join([j \in 1..Len(inside) |-> inside[j].word])

\* C3: fluency_score is in 0..100, and 0 when the transcript has no
\* whitespace-delimited word, also with an empty pause list.
C3_FluencyInRange ==
    pc = "measured" =>
        /\ metrics.fluency_score \in 0..100
        /\ (\A j \in 1..Len(text) : text[j] \in Whitespace) => metrics.fluency_score = 0

\* A transcript of whitespace only, no pause, score 0.
C3_Witness ==
    /\ pc = "measured"
    /\ text = <<" ">>
    /\ pauses = <<>>
    /\ metrics.fluency_score = 0

\* C4 as stated: with at least one word, fluency_score is
\* max(0, 100 - 5*T - 10*pause_count) rounded, T the returned
\* total_pause_seconds (the sum of the durations rounded to 1 decimal).
C4_ScoreFromRoundedTotal ==
    (pc = "measured" /\ metrics.word_count >= 1) =>
        metrics.fluency_score * 1000 =
            RoundHalfEven(Max(0, 100000 - 5 * metrics.total_pause_seconds
                                 - 10000 * metrics.pause_count), 1000)

\* C4 amended: with at least one word, fluency_score is
\* max(0, 100 - 5*S - 10*pause_count) rounded to the nearest integer (ties to
\* even), S the unrounded sum of the pause durations; total_pause_seconds is
\* S rounded to 1 decimal.
C4_ScoreFromExactTotal ==
    (pc = "measured" /\ metrics.word_count >= 1) =>
        LET S == SumDurations(pauses)
            v == 100000 - 5 * S - 10000 * Len(pauses)
            score == metrics.fluency_score * 1000
            T == metrics.total_pause_seconds
        IN /\ IF v <= 0 THEN score = 0
              ELSE /\ 2 * (score - v) <= 1000
                   /\ 2 * (v - score) <= 1000
                   /\ (2 * (score - v) \in {1000, -1000}) => metrics.fluency_score % 2 = 0
           /\ T % 100 = 0
           /\ 2 * (T - S) <= 100
           /\ 2 * (S - T) <= 100

\* One pause of 3.06 s: total_pause_seconds is 3.1 and the score 75, where
\* the rounded total would give 74.5.
C4_Witness ==
    /\ pc = "measured"
    /\ metrics.word_count >= 1
    /\ Len(pauses) = 1
    /\ metrics.total_pause_seconds = 3100
    /\ metrics.fluency_score = 75

\* C5: once an /analyze request has finished, on any exit path, no temporary
\* audio artifact of it exists.
C5_NoTempFileLeft == pc = "done" => files = {}

\* C6 as stated: the session fails with a 500 whenever the Transcript Source
\* raises or returns zero TimedUnits.
C6_FailsOnErrorOrNoUnits ==
    (/\ pc = "done"
     /\ calls.transcribe = 1
     /\ \/ failure.step = "transcribe"
        \/ failure.step = "none" /\ words = <<>>)
    => response.status = 500 /\ ~response.results

\* C6 amended: the session fails with a 500 carrying the error, never a
\* success response, whenever the Transcript Source raises; when it returns
\* zero TimedUnits the session succeeds with an empty pause list and no
\* completion call.
C6_FailsOnErrorOnly ==
    pc = "done" =>
        /\ failure.step = "transcribe" =>
              /\ response.status = 500
              /\ ~response.results
              /\ response.error = failure.msg
        /\ (calls.transcribe = 1 /\ failure.step = "none" /\ words = <<>>) =>
              /\ response.status = 200
              /\ response.results
              /\ pauses = <<>>
              /\ calls.llm = <<>>

\* The Transcript Source raised and the session ended in a 500.
C6_Witness ==
    /\ pc = "done"
    /\ calls.transcribe = 1
    /\ failure.step = "transcribe"
    /\ response.status = 500

\* C7 as stated: in a successful session the completion call is made exactly
\* once for each pause with a non-empty context_before, in pause order, never
\* for one with an empty context, which gets the fallback; every pause
\* carries a prompt.
C7_CallPerNonEmptyContext ==
    (pc = "done" /\ response.results) =>
        /\ calls.llm = PausesWhere(LAMBDA n : pauses[n].context_before # <<>>)
        /\ \A n \in 1..Len(pauses) :
              /\ pauses[n].ai_prompt # NotAttached
              /\ pauses[n].context_before = <<>> => pauses[n].ai_prompt = Fallback(variant)

\* C7 amended: in a successful session the completion call is made exactly
\* once, in pause order, for each pause whose context_before has at least 10
\* characters after stripping whitespace, and never for another pause; every
\* other pause gets the fallback, and every pause carries a prompt.
C7_CallPerSufficientContext ==
    /\ \A c \in 1..Len(calls.llm) :
          Len(Strip(pauses[calls.llm[c]].context_before)) >= MinContextChars
    /\ (pc = "done" /\ response.results) =>
          /\ calls.llm = PausesWhere(
                LAMBDA n : Len(Strip(pauses[n].context_before)) >= MinContextChars)
          /\ \A n \in 1..Len(pauses) :
                /\ pauses[n].ai_prompt # NotAttached
                /\ IF Called(n) THEN pauses[n].ai_prompt \in Completions
                   ELSE pauses[n].ai_prompt = Fallback(variant)

\* Two pauses: the first with a short, non-empty context and no call, the
\* second with a call.
C7_Witness ==
    /\ pc = "done"
    /\ response.results
    /\ Len(pauses) = 2
    /\ pauses[1].context_before # <<>>
    /\ calls.llm = <<2>>

\* C8 as stated: a failure of transcoding, transcription or a completion call
\* ends the session in a 500 whose body is only the underlying error message,
\* and each external call is made at most once.
C8_FailureSurfacesMessage ==
    /\ calls.transcode <= 1
    /\ calls.transcribe <= 1
    /\ \A c, d \in 1..Len(calls.llm) : calls.llm[c] = calls.llm[d] => c = d
    /\ failure.step \in {"transcode_status", "transcode", "transcribe", "llm"} =>
          /\ pc = "done"
          /\ response = [status |-> 500, error |-> failure.msg, results |-> FALSE]

\* C8 amended: such a failure ends the session in a 500 whose body is only an
\* error: the underlying message when the call raised, the fixed message
\* "Failed to process audio. ..." when the transcoding utility exited with a
\* non-zero status; each external call is made at most once.
C8_FailureEndsSession ==
    /\ calls.transcode <= 1
    /\ calls.transcribe <= 1
    /\ \A c, d \in 1..Len(calls.llm) : calls.llm[c] = calls.llm[d] => c = d
    /\ failure.step \in {"transcode_status", "transcode", "transcribe", "llm"} =>
          /\ pc = "done"
          /\ response.status = 500
          /\ ~response.results
          /\ response.error = IF failure.step = "transcode_status"
                              THEN TranscodeFailedMsg ELSE failure.msg

\* The completion call for the second pause fails after the first returned.
C8_Witness ==
    /\ pc = "done"
    /\ failure.step = "llm"
    /\ calls.llm = <<1, 2>>
    /\ pauses[1].ai_prompt \in Completions
    /\ ~response.results

\* C9: the duration of every Pause is its pause_end minus its pause_start.
C9_DurationIsDifference ==
    pc = "detected" =>
        \A n \in 1..Len(pauses) :
            pauses[n].duration = pauses[n].pause_end - pauses[n].pause_start

\* C10: in src/app.py, for units ordered by start, a pause whose gap is over
\* the 15 s lookback window has an empty context_before, gets the fallback
\* prompt and sees no completion call.
C10_LongGapGetsFallback ==
    (variant = "api" /\ pc \in {"llm", "done"} /\ SortedByStart(words)) =>
        LET Q == PauseIndices(words, PauseThreshold)
        IN \A n \in 1..Len(pauses) :
              Gap(words, Q[n]) > LookbackWindow =>
                 /\ pauses[n].context_before = <<>>
                 /\ ~Called(n)
                 /\ (pc = "done" /\ response.results) =>
                        pauses[n].ai_prompt = Fallback("api")

\* Three ordered units, the third more than 15 s after the second.
C10_Witness ==
    /\ variant = "api"
    /\ pc = "done"
    /\ response.results
    /\ SortedByStart(words)
    /\ Len(words) = 3
    /\ Len(pauses) >= 1
    /\ Gap(words, 3) > LookbackWindow
    /\ pauses[Len(pauses)].ai_prompt = Fallback("api")

====
